---- MODULE Spec2Model ----
(***************************************************************************)
(* Model of the virtual try-on page (src/app/page.tsx) and of the API      *)
(* client it calls (generateMatchingSet, checkJobStatus).                  *)
(*                                                                         *)
(* One JavaScript event loop: every action below is one macrotask (a UI    *)
(* event, an interval tick, the completion of a network request or of an   *)
(* image compression) together with all the synchronous code and           *)
(* microtasks it runs.  inflight counts, per polling session, the status   *)
(* requests issued and not yet answered; submits counts, per await of      *)
(* handleSubmit, the calls suspended there.  The answer of the service to  *)
(* a request is chosen when it arrives.                                    *)
(*                                                                         *)
(* Spec is the page while it is mounted; SpecUnmount adds the unmount      *)
(* cleanup, after which only outstanding completions run.                  *)
(***************************************************************************)
EXTENDS Integers, FiniteSets, Sequences, TLC

\* ---------------------------------------------------------------- bounds
MaxSubmits == 2      \* handleSubmit calls explored
MaxRequests == 3        \* status requests issued in all, over all sessions
MaxNumOutputs == 5   \* largest numOutputs argument explored
MaxMB == 2           \* largest budget, file and blob size explored, in MiB
MaxFiles == 3        \* longest list handed to compressImages
MaxImages == 3       \* most generated images the gallery shows

\* ------------------------------------------------------------- constants
NULL == "null"       \* JavaScript null / undefined
EMPTY == ""          \* the empty string

Slots == {"top", "bottom", "outer", "dress"}
UploadSlots == {"top"}            \* the uploaders the model drops a file on
SessionIds == 1..MaxSubmits
URL1 == "url1"       \* a generated image URL

\* The bodies a 2xx answer of POST {base}/status can carry
\* (StatusResponse: message, data.status, data.output, data.error).
StatusResponses ==
  { [status |-> "processing", message |-> EMPTY, output |-> NULL, error |-> NULL],
    [status |-> "processing", message |-> "m",   output |-> URL1, error |-> NULL],
    [status |-> "processing", message |-> "m",   output |-> NULL, error |-> "e"],
    [status |-> "completed",  message |-> "m",   output |-> NULL, error |-> NULL],
    [status |-> "succeeded",  message |-> "m",   output |-> URL1, error |-> NULL],
    [status |-> "SUCCEEDED",  message |-> "m",   output |-> URL1, error |-> NULL],
    [status |-> "failed",     message |-> "m",   output |-> NULL, error |-> "e"],
    [status |-> "canceled",   message |-> "m",   output |-> NULL, error |-> NULL] }

\* String.prototype.toLowerCase on the status tags of the model.
toLowerCase(s) ==
  CASE s = "SUCCEEDED" -> "succeeded"
    [] OTHER -> s

\* Variants of the terminal test: one forgets 'canceled', one takes the
\* badge's 'completed' for a terminal tag.
IsTerminalStatus_NoCanceled(s) == s \in {"succeeded", "failed"}
IsTerminalStatus_Completed(s) ==
  s \in {"succeeded", "failed", "canceled", "completed"}

\* ['succeeded', 'failed', 'canceled'].includes(currentStatus)
IsTerminalStatus(s) == s \in {"succeeded", "failed", "canceled"}

\* StatusDisplay.getStatusColor: the badge colour of a status tag.
getStatusColor(s) ==
  CASE toLowerCase(s) \in {"starting", "processing"} -> "blue"
    [] toLowerCase(s) \in {"succeeded", "completed"} -> "green"
    [] toLowerCase(s) \in {"failed", "canceled"} -> "red"
    [] OTHER -> "gray"

\* The ways a checkJobStatus / generateMatchingSet call can throw after the
\* request was sent: fetch rejects, or the answer is not 2xx.
FailureKinds == {"network"}
ErrorMessage(kind) ==
  IF kind = "network" THEN "Failed to fetch" ELSE "Unknown error"
NotConfigured == "Supabase function URL is not configured"

\* The outcomes of POST {base}/remix-images that reach handleSubmit's check.
GenerateOutcomes == {"success", "not_success", "no_prediction_id"}

\* The awaits of handleSubmit: urlToFile, compressImage of the model file,
\* compressImage of the clothing file, generateMatchingSet.
SubmitAwaits == {"fetchModel", "compressModel", "compressClothing", "generate"}

VARIABLES
  mounted,              \* the Home component is mounted
  urlConfigured,        \* SUPABASE_FUNCTION_URL is non-empty
  modelImage,           \* modelImage.length > 0
  clothing,             \* which of topImage/bottomImage/outerImage/dressImage is non-empty
  isGenerating, isCompressing, predictionId, status, statusMessage,
  generatedImages, error, currentStep, selectedGeneratedImage,
  pollingIntervalRef,   \* pollingIntervalRef.current: 0 (null) or a timer handle
  liveTimers,           \* interval timers installed and not cleared
  sessions,             \* number of startPolling calls so far
  inflight,             \* per session: status requests issued, not yet answered
  submits,              \* per await of handleSubmit: the calls suspended there
  failedSubmits,        \* handleSubmit calls that ended as failed submissions
  hist,                 \* history of each polling session (observation only)
  \* one call of generateMatchingSet / checkJobStatus
  apiArgs,              \* endpoint, modelImage, clothingImages, numOutputs
  formData,             \* the multipart body built so far: <<field, value>> pairs
  apiPc,                \* "idle", "fetching", "returned" or "thrown"
  apiError,             \* message of the Error the call threw, or NULL
  response,             \* the HTTP answer fetch resolved with, or NULL
  \* one call of compressImage
  file, quality, maxSizeMB,   \* its arguments (quality in hundredths)
  maxWidth, maxHeight,
  img,                  \* natural width and height of the decoded image
  width, height,        \* the target dimensions, exact fractions <<n, d>>
  canvas,               \* canvas.width and canvas.height
  compressPc,           \* the callback the promise is waiting for
  blob, smallerBlob,    \* size of the first / second encoded blob, or NULL
  trace,                \* operations started and callbacks run, in order
  encodeQualities,      \* quality argument of each toBlob call, in order
  settled,              \* how the promise settled: state and value
  \* one call of compressImages
  files,                \* its argument
  promises,             \* the promise of each compressImage call
  values,               \* Promise.all: the results stored so far, by index
  compressedFiles,      \* the promise compressImages returns
  finished,             \* the indices in the order their promises settled
  \* the result gallery and the model image of the next submission
  imageArray,           \* the generated images the gallery shows
  selectedImage,        \* the gallery's own selection state
  picked,               \* the image the user clicked last (observation only)
  modelUrl,             \* the URL handleSubmit fetched the model image from
  \* one call of the multi-slot handleSubmit
  slotFiles,            \* per clothing slot: files[0], or NULL when empty
  compressionPromises,  \* the file each compressImage call was given
  compressedImages,     \* what Promise.all resolved with
  clothingImagesArg,    \* the clothingImages object built so far
  compressedIndex,
  request,              \* the multipart body generateMatchingSet built
  multiPc               \* position in handleSubmit

ui == <<isGenerating, isCompressing, predictionId, status, statusMessage,
        generatedImages, error, currentStep, selectedGeneratedImage>>
form == <<modelImage, clothing>>
flows == <<submits, failedSubmits>>
page == <<mounted, form, ui, pollingIntervalRef, liveTimers, sessions,
          inflight, flows, hist>>
api == <<apiArgs, formData, apiPc, apiError, response>>
compress == <<file, quality, maxSizeMB, maxWidth, maxHeight, img, width,
              height, canvas, compressPc, blob, smallerBlob, trace,
              encodeQualities, settled>>
batch == <<files, promises, values, compressedFiles, finished>>
gallery == <<imageArray, selectedImage, picked, modelUrl>>
multi == <<slotFiles, compressionPromises, compressedImages,
           clothingImagesArg, compressedIndex, request, multiPc>>
vars == <<mounted, urlConfigured, form, ui, pollingIntervalRef, liveTimers,
          sessions, inflight, flows, hist, api, compress, batch, gallery,
          multi>>
\* What the page, the API client, compressImage leave alone.
submodels == <<api, compress, batch, gallery, multi>>
apiOthers == <<page, urlConfigured, compress, batch, gallery, multi>>
others == <<page, urlConfigured, api, batch, gallery, multi>>

\* What has been observed of one polling session: requests issued, interval
\* ticks fired, 2xx answers applied to the page state, poll failures
\* reported, whether an answer with a terminal tag or an error was handled
\* (and the number of the answer that was the first such), whether a request
\* was issued while another was outstanding, whether the session's live
\* timer was cleared by handleReset or by the unmount cleanup.
NoHist == [issued |-> 0, ticks |-> 0, applied |-> 0, failures |-> 0,
           stopSeen |-> FALSE, firstStop |-> 0, overlapped |-> FALSE,
           cancelled |-> FALSE]

\* No API call and no compression under way.
NoCall == [endpoint |-> "none", modelImage |-> NULL,
           clothingImages |-> [top_image |-> NULL, bottom_image |-> NULL,
                               outer_image |-> NULL, dress_image |-> NULL],
           numOutputs |-> 0]
JsonObject(msg) == [type |-> "object", message |-> msg]
JsonNull == [type |-> "null", message |-> NULL]
NoResponse == [ok |-> FALSE, status |-> 0,
               body |-> [kind |-> "absent", value |-> JsonNull]]

ApiIdle ==
  /\ apiArgs = NoCall
  /\ formData = <<>>
  /\ apiPc = "idle"
  /\ apiError = NULL
  /\ response = NoResponse

NoFile == [name |-> EMPTY, size |-> 0, type |-> EMPTY, lastModified |-> 0]
NoBlob == [present |-> FALSE, size |-> 0]
Pending == [state |-> "pending", file |-> NoFile, reason |-> EMPTY]

NoSize == [width |-> 0, height |-> 0]

CompressIdle ==
  /\ file = NoFile
  /\ quality = 0
  /\ maxSizeMB = 0
  /\ maxWidth = 0
  /\ maxHeight = 0
  /\ img = NoSize
  /\ width = <<0, 1>>
  /\ height = <<0, 1>>
  /\ canvas = NoSize
  /\ compressPc = "idle"
  /\ blob = NoBlob
  /\ smallerBlob = NoBlob
  /\ trace = <<>>
  /\ encodeQualities = <<>>
  /\ settled = Pending

NotCalled == [state |-> "idle", list |-> <<>>, reason |-> EMPTY]

BatchIdle ==
  /\ files = <<>>
  /\ promises = <<>>
  /\ values = <<>>
  /\ compressedFiles = NotCalled
  /\ finished = <<>>

GalleryIdle ==
  /\ imageArray = <<>>
  /\ selectedImage = NULL
  /\ picked = NULL
  /\ modelUrl = NULL

MultiIdle ==
  /\ slotFiles = <<>>
  /\ compressionPromises = <<>>
  /\ compressedImages = <<>>
  /\ clothingImagesArg = <<>>
  /\ compressedIndex = 0
  /\ request = <<>>
  /\ multiPc = "idle"

\* The page right after the first render.
PageInit ==
  /\ mounted = TRUE
  /\ modelImage = FALSE
  /\ clothing = "none"
  /\ isGenerating = FALSE
  /\ isCompressing = FALSE
  /\ predictionId = 0          \* null; an id is a session number
  /\ status = EMPTY
  /\ statusMessage = EMPTY
  /\ generatedImages = NULL
  /\ error = NULL
  /\ currentStep = "initial"
  /\ selectedGeneratedImage = NULL
  /\ pollingIntervalRef = 0
  /\ liveTimers = {}
  /\ sessions = 0
  /\ inflight = [s \in SessionIds |-> 0]
  /\ submits = [pc \in SubmitAwaits |-> 0]
  /\ failedSubmits = 0
  /\ hist = [s \in SessionIds |-> NoHist]

Init ==
  /\ urlConfigured \in BOOLEAN
  /\ PageInit
  /\ ApiIdle
  /\ CompressIdle
  /\ BatchIdle
  /\ GalleryIdle
  /\ MultiIdle

\* ------------------------------------------------------------ rendering
\* page.tsx:292  the upload form is rendered
FormVisible ==
  mounted /\ (generatedImages = NULL \/ currentStep = "adding") /\ ~isGenerating

\* page.tsx:470  the result gallery is rendered
GalleryVisible == mounted /\ generatedImages # NULL

hasClothingUploaded == clothing # "none"

\* page.tsx:450  the submit button is not disabled
SubmitEnabled ==
  /\ FormVisible
  /\ ~(isGenerating \/ (currentStep = "initial" /\ ~modelImage)
        \/ ~hasClothingUploaded)

\* ------------------------------------------------------- polling helpers
\* JavaScript truthiness of a string-or-null value: if (x) ...
Truthy(x) == x # NULL /\ x # EMPTY

Outstanding(s) == inflight[s]

\* Status requests issued so far, over all sessions.
RECURSIVE SumIssued(_)
SumIssued(n) == IF n = 0 THEN 0 ELSE hist[n].issued + SumIssued(n - 1)
TotalIssued == SumIssued(MaxSubmits)

\* Variant: clearInterval is not called, the timer is leaked.
ClearedTimers_Leak(ref, live) == live

\* if (pollingIntervalRef.current) { clearInterval(...); ... = null; }
ClearedTimers(ref, live) == live \ {ref}

\* Variant: the timer is cleared but the handle is kept, as the unmount
\* cleanup does.
cancelPolling_KeepsHandle(ref, live) ==
  [ref |-> ref, live |-> ClearedTimers(ref, live)]

\* handleReset's cancellation of polling (page.tsx:236-239), as a function
\* of the handle and of the timers installed: nothing happens when the
\* handle is null.
cancelPolling(ref, live) ==
  IF ref # 0
  THEN [ref |-> 0, live |-> ClearedTimers(ref, live)]
  ELSE [ref |-> ref, live |-> live]

\* poll(): one call of the closure of session s, up to its await.
\* checkJobStatus throws before fetch when the URL is not configured.
IssuePoll(s, byTick) ==
  /\ inflight' = [inflight EXCEPT ![s] = @ + 1]
  /\ hist' = [hist EXCEPT
       ![s].issued = @ + 1,
       ![s].ticks = IF byTick THEN @ + 1 ELSE @,
       ![s].overlapped = @ \/ Outstanding(s) > 0]

\* Variant: the data.error branch is missing.
StopsPolling_StatusOnly(resp) == IsTerminalStatus(resp.status)

\* The 2xx branch of poll (page.tsx:69-86): does this answer end polling?
StopsPolling(resp) ==
  \/ Truthy(resp.error)
  \/ IsTerminalStatus(resp.status)

\* The claim's notion of a final answer, independent of the handler.
IsFinalAnswer(resp) ==
  resp.error \notin {NULL, EMPTY}
    \/ resp.status \in {"succeeded", "failed", "canceled"}

\* ---------------------------------------------------------------- form
\* ImageUpload onFilesChange={setModelImage}
SetModelImage(present) ==
  /\ FormVisible
  /\ currentStep = "initial"
  /\ modelImage # present
  /\ modelImage' = present
  /\ UNCHANGED <<submodels, mounted, urlConfigured, clothing, ui, pollingIntervalRef,
                 liveTimers, sessions, inflight, flows, hist>>

\* handleClothingUpload(type, files): only the chosen uploader keeps files.
handleClothingUpload(type, present) ==
  /\ FormVisible
  /\ IF hasClothingUploaded THEN clothing = type /\ ~present ELSE present
  /\ clothing' = IF present THEN type ELSE "none"
  /\ UNCHANGED <<submodels, mounted, urlConfigured, modelImage, ui, pollingIntervalRef,
                 liveTimers, sessions, inflight, flows, hist>>

\* ResultGallery.handleImageClick -> onImageSelect(imageUrl)
handleImageClick ==
  /\ GalleryVisible
  /\ selectedGeneratedImage = NULL
  /\ selectedGeneratedImage' = generatedImages
  /\ UNCHANGED <<submodels, mounted, urlConfigured, form, isGenerating, isCompressing,
                 predictionId, status, statusMessage, generatedImages, error,
                 currentStep, pollingIntervalRef, liveTimers, sessions,
                 inflight, flows, hist>>

\* ResultGallery.handleCloseModal -> onImageSelect(null)
handleCloseModal ==
  /\ GalleryVisible
  /\ selectedGeneratedImage # NULL
  /\ selectedGeneratedImage' = NULL
  /\ UNCHANGED <<submodels, mounted, urlConfigured, form, isGenerating, isCompressing,
                 predictionId, status, statusMessage, generatedImages, error,
                 currentStep, pollingIntervalRef, liveTimers, sessions,
                 inflight, flows, hist>>

\* handleContinueAdding
handleContinueAdding ==
  /\ GalleryVisible
  /\ currentStep # "adding"
  /\ currentStep' = "adding"
  /\ clothing' = "none"
  /\ status' = EMPTY
  /\ statusMessage' = EMPTY
  /\ error' = NULL
  /\ UNCHANGED <<submodels, mounted, urlConfigured, modelImage, isGenerating,
                 isCompressing, predictionId, generatedImages,
                 selectedGeneratedImage, pollingIntervalRef, liveTimers,
                 sessions, inflight, flows, hist>>

\* handleReset: the form's Reset button (page.tsx:455-459) or the gallery's
\* Start Over button (page.tsx:477-486).
ResetEnabled ==
  \/ FormVisible /\ (modelImage \/ hasClothingUploaded \/ generatedImages # NULL)
       /\ ~isGenerating
  \/ GalleryVisible /\ currentStep # "adding"

handleReset ==
  /\ ResetEnabled
  /\ modelImage' = FALSE
  /\ clothing' = "none"
  /\ predictionId' = 0
  /\ status' = EMPTY
  /\ statusMessage' = EMPTY
  /\ generatedImages' = NULL
  /\ error' = NULL
  /\ isGenerating' = FALSE
  /\ currentStep' = "initial"
  /\ selectedGeneratedImage' = NULL
  /\ liveTimers' = cancelPolling(pollingIntervalRef, liveTimers).live
  /\ pollingIntervalRef' = cancelPolling(pollingIntervalRef, liveTimers).ref
  /\ hist' = [s \in SessionIds |->
       IF s = pollingIntervalRef /\ s \in liveTimers
       THEN [hist[s] EXCEPT !.cancelled = TRUE] ELSE hist[s]]
  /\ UNCHANGED <<submodels, mounted, urlConfigured, isCompressing, sessions, inflight,
                 flows>>

\* useEffect cleanup on unmount: clears the timer, keeps the handle.
Unmount ==
  /\ mounted
  /\ mounted' = FALSE
  /\ liveTimers' = ClearedTimers(pollingIntervalRef, liveTimers)
  /\ hist' = [s \in SessionIds |->
       IF s = pollingIntervalRef /\ s \in liveTimers
       THEN [hist[s] EXCEPT !.cancelled = TRUE] ELSE hist[s]]
  /\ UNCHANGED <<submodels, urlConfigured, form, ui,
                 pollingIntervalRef, sessions,
                 inflight, flows>>

\* ------------------------------------------------------------ polling
\* Variant: the immediate poll() call is missing.
startPolling_NoImmediatePoll(id) ==
  /\ sessions' = id
  /\ UNCHANGED <<inflight, hist>>
  /\ liveTimers' = ClearedTimers(pollingIntervalRef, liveTimers) \cup {id}
  /\ pollingIntervalRef' = id

\* startPolling(id): clear the previous timer, poll at once, install the
\* interval.  The timer handle returned by setInterval is the session number.
startPolling(id) ==
  /\ sessions' = id
  /\ IssuePoll(id, FALSE)
  /\ liveTimers' = ClearedTimers(pollingIntervalRef, liveTimers) \cup {id}
  /\ pollingIntervalRef' = id

\* Variant: poll returns at once while a request of the session is
\* outstanding (the tick fires, no request goes out).
Tick_SkipWhenBusy(s) ==
  /\ s \in liveTimers
  /\ TotalIssued < MaxRequests
  /\ IF Outstanding(s) = 0
     THEN IssuePoll(s, TRUE)
     ELSE /\ hist' = [hist EXCEPT ![s].ticks = @ + 1]
          /\ UNCHANGED inflight
  /\ UNCHANGED <<submodels, mounted, urlConfigured, form, ui, pollingIntervalRef,
                 liveTimers, sessions, flows>>

\* setInterval(poll, 3000): one tick of the timer of session s.
Tick(s) ==
  /\ s \in liveTimers
  /\ TotalIssued < MaxRequests
  /\ IssuePoll(s, TRUE)
  /\ UNCHANGED <<submodels, mounted, urlConfigured, form, ui, pollingIntervalRef,
                 liveTimers, sessions, flows>>

\* poll, try branch (page.tsx:60-86): checkJobStatus resolved with resp.
PollResponse(s, resp) ==
  /\ Outstanding(s) > 0
  /\ urlConfigured
  /\ inflight' = [inflight EXCEPT ![s] = @ - 1]
  /\ status' = resp.status
  /\ statusMessage' = (IF Truthy(resp.message) THEN resp.message ELSE EMPTY)
  /\ generatedImages' = (IF Truthy(resp.output) THEN resp.output
                         ELSE generatedImages)
  /\ error' = (IF Truthy(resp.error) THEN resp.error ELSE error)
  /\ IF StopsPolling(resp)
     THEN /\ isGenerating' = FALSE
          /\ liveTimers' = ClearedTimers(pollingIntervalRef, liveTimers)
          /\ pollingIntervalRef' = 0
     ELSE UNCHANGED <<isGenerating, liveTimers, pollingIntervalRef>>
  /\ hist' = [hist EXCEPT
       ![s].applied = @ + 1,
       ![s].stopSeen = @ \/ IsFinalAnswer(resp),
       ![s].firstStop =
          IF ~hist[s].stopSeen /\ IsFinalAnswer(resp)
          THEN hist[s].applied + hist[s].failures + 1 ELSE @]
  /\ UNCHANGED <<submodels, mounted, urlConfigured, form, isCompressing, predictionId,
                 currentStep, selectedGeneratedImage, sessions, flows>>

\* Variant: the catch branch reports the error and leaves the timer running.
PollCatch_KeepsTimer(s, msg) ==
  /\ inflight' = [inflight EXCEPT ![s] = @ - 1]
  /\ error' = msg
  /\ isGenerating' = FALSE
  /\ hist' = [hist EXCEPT ![s].failures = @ + 1]
  /\ UNCHANGED <<submodels, mounted, urlConfigured, form, isCompressing, predictionId,
                 status, statusMessage, generatedImages, currentStep,
                 selectedGeneratedImage, sessions, flows, liveTimers,
                 pollingIntervalRef>>

\* poll, catch branch (page.tsx:87-95): checkJobStatus threw msg.
PollCatch(s, msg) ==
  /\ inflight' = [inflight EXCEPT ![s] = @ - 1]
  /\ error' = msg
  /\ isGenerating' = FALSE
  /\ liveTimers' = ClearedTimers(pollingIntervalRef, liveTimers)
  /\ pollingIntervalRef' = 0
  /\ hist' = [hist EXCEPT ![s].failures = @ + 1]
  /\ UNCHANGED <<submodels, mounted, urlConfigured, form, isCompressing, predictionId,
                 status, statusMessage, generatedImages, currentStep,
                 selectedGeneratedImage, sessions, flows>>

\* checkJobStatus throws: URL not configured, fetch rejected, or not 2xx.
PollFailure(s, kind) ==
  /\ Outstanding(s) > 0
  /\ PollCatch(s, IF urlConfigured THEN ErrorMessage(kind) ELSE NotConfigured)

\* ------------------------------------------------------------- submit
Suspended == submits["fetchModel"] + submits["compressModel"]
               + submits["compressClothing"] + submits["generate"]

\* handleSubmit calls so far: suspended, failed, or accepted by the service.
SubmitCalls == Suspended + failedSubmits + sessions

\* One call leaves the await it is suspended at ...
Leave(pc) == [submits EXCEPT ![pc] = @ - 1]
\* ... and is suspended at the next one.
Move(pc, next) == [submits EXCEPT ![pc] = @ - 1, ![next] = @ + 1]

\* handleSubmit, catch branch (page.tsx:198-203).  failedSubmits counts the
\* calls whose input (a rejected compression, a thrown or unsuccessful
\* generateMatchingSet answer) makes them failed submissions.
SubmitCatch(msg) ==
  /\ error' = msg
  /\ isGenerating' = FALSE
  /\ isCompressing' = FALSE

\* handleSubmit up to its first await (page.tsx:103-161).
handleSubmit ==
  /\ SubmitEnabled
  /\ SubmitCalls < MaxSubmits
  /\ generatedImages' = NULL
  /\ status' = EMPTY
  /\ statusMessage' = EMPTY
  /\ IF currentStep = "initial" /\ ~modelImage
     THEN /\ error' = "Please select a model image"
          /\ UNCHANGED <<isGenerating, isCompressing, flows>>
     ELSE IF ~hasClothingUploaded
     THEN /\ error' = "Please select a clothing item to add"
          /\ UNCHANGED <<isGenerating, isCompressing, flows>>
     ELSE IF currentStep = "adding" /\ selectedGeneratedImage = NULL
               /\ ~Truthy(generatedImages)
     THEN /\ failedSubmits' = failedSubmits + 1
          /\ UNCHANGED submits
          /\ SubmitCatch("No generated image available to continue")
     ELSE /\ error' = NULL
          /\ isGenerating' = TRUE
          /\ isCompressing' = TRUE
          /\ submits' = [submits EXCEPT
               ![IF currentStep = "initial" THEN "compressModel"
                 ELSE "fetchModel"] = @ + 1]
          /\ UNCHANGED failedSubmits
  /\ UNCHANGED <<submodels, mounted, urlConfigured, form, predictionId, currentStep,
                 selectedGeneratedImage, pollingIntervalRef, liveTimers,
                 sessions, inflight, hist>>

\* await urlToFile(...) finished (page.tsx:155, 158)
FetchModelDone(ok) ==
  /\ submits["fetchModel"] > 0
  /\ IF ok
     THEN /\ submits' = Move("fetchModel", "compressModel")
          /\ UNCHANGED <<failedSubmits, error, isGenerating, isCompressing>>
     ELSE /\ submits' = Leave("fetchModel")
          /\ failedSubmits' = failedSubmits + 1
          /\ SubmitCatch("Failed to fetch")
  /\ UNCHANGED <<submodels, mounted, urlConfigured, form, predictionId, status,
                 statusMessage, generatedImages, currentStep,
                 selectedGeneratedImage, pollingIntervalRef, liveTimers,
                 sessions, inflight, hist>>

\* await compressImage(model file) finished (page.tsx:146, 156, 159)
CompressModelDone(ok) ==
  /\ submits["compressModel"] > 0
  /\ IF ok
     THEN /\ submits' = Move("compressModel", "compressClothing")
          /\ UNCHANGED <<failedSubmits, error, isGenerating, isCompressing>>
     ELSE /\ submits' = Leave("compressModel")
          /\ failedSubmits' = failedSubmits + 1
          /\ SubmitCatch("Failed to load image")
  /\ UNCHANGED <<submodels, mounted, urlConfigured, form, predictionId, status,
                 statusMessage, generatedImages, currentStep,
                 selectedGeneratedImage, pollingIntervalRef, liveTimers,
                 sessions, inflight, hist>>

\* await compressImage(clothing file) finished, then the call of
\* generateMatchingSet up to its fetch (page.tsx:164-184).
CompressClothingDone(ok) ==
  /\ submits["compressClothing"] > 0
  /\ IF ~ok
     THEN /\ submits' = Leave("compressClothing")
          /\ failedSubmits' = failedSubmits + 1
          /\ SubmitCatch("Failed to load image")
     ELSE IF ~urlConfigured
     THEN /\ submits' = Leave("compressClothing")
          /\ failedSubmits' = failedSubmits + 1
          /\ SubmitCatch(NotConfigured)
     ELSE /\ submits' = Move("compressClothing", "generate")
          /\ isCompressing' = FALSE
          /\ UNCHANGED <<failedSubmits, error, isGenerating>>
  /\ UNCHANGED <<submodels, mounted, urlConfigured, form, predictionId, status,
                 statusMessage, generatedImages, currentStep,
                 selectedGeneratedImage, pollingIntervalRef, liveTimers,
                 sessions, inflight, hist>>

\* Variant: the check is response.status === 'success' alone, so an answer
\* without prediction_id starts polling.
GenerateResponse_StatusOnly(outcome) ==
  /\ submits["generate"] > 0
  /\ outcome # "not_success" => TotalIssued < MaxRequests
  /\ submits' = Leave("generate")
  /\ failedSubmits' = failedSubmits + (IF outcome = "success" THEN 0 ELSE 1)
  /\ IF outcome # "not_success"
     THEN /\ predictionId' = sessions + 1
          /\ status' = "starting"
          /\ clothing' = "none"
          /\ startPolling(sessions + 1)
          /\ UNCHANGED <<error, isGenerating, isCompressing>>
     ELSE /\ SubmitCatch("m")
          /\ UNCHANGED <<predictionId, status, clothing, pollingIntervalRef,
                         liveTimers, sessions, inflight, hist>>
  /\ UNCHANGED <<submodels, mounted, urlConfigured, modelImage, statusMessage,
                 generatedImages, currentStep, selectedGeneratedImage>>

\* generateMatchingSet resolved (page.tsx:186-197).  The service gives each
\* job a fresh prediction id; the model uses the session number.
GenerateResponse(outcome) ==
  /\ submits["generate"] > 0
  /\ outcome = "success" => TotalIssued < MaxRequests
  /\ submits' = Leave("generate")
  /\ failedSubmits' = failedSubmits + (IF outcome = "success" THEN 0 ELSE 1)
  /\ IF outcome = "success"
     THEN /\ predictionId' = sessions + 1
          /\ status' = "starting"
          /\ clothing' = "none"
          /\ startPolling(sessions + 1)
          /\ UNCHANGED <<error, isGenerating, isCompressing>>
     ELSE /\ SubmitCatch(IF outcome = "not_success" THEN "m"
                         ELSE "Failed to start generation")
          /\ UNCHANGED <<predictionId, status, clothing, pollingIntervalRef,
                         liveTimers, sessions, inflight, hist>>
  /\ UNCHANGED <<submodels, mounted, urlConfigured, modelImage, statusMessage,
                 generatedImages, currentStep, selectedGeneratedImage>>

\* generateMatchingSet threw: fetch rejected or the answer was not 2xx.
GenerateFailure(kind) ==
  /\ submits["generate"] > 0
  /\ submits' = Leave("generate")
  /\ failedSubmits' = failedSubmits + 1
  /\ SubmitCatch(ErrorMessage(kind))
  /\ UNCHANGED <<submodels, mounted, urlConfigured, form, predictionId, status,
                 statusMessage, generatedImages, currentStep,
                 selectedGeneratedImage, pollingIntervalRef, liveTimers,
                 sessions, inflight, hist>>

\* ------------------------------------------------------ specification
Next ==
  \/ \E b \in BOOLEAN : SetModelImage(b)
  \/ \E t \in UploadSlots, b \in BOOLEAN : handleClothingUpload(t, b)
  \/ handleImageClick
  \/ handleCloseModal
  \/ handleContinueAdding
  \/ handleReset
  \/ handleSubmit
  \/ \E ok \in BOOLEAN : FetchModelDone(ok)
  \/ \E ok \in BOOLEAN : CompressModelDone(ok)
  \/ \E ok \in BOOLEAN : CompressClothingDone(ok)
  \/ \E o \in GenerateOutcomes : GenerateResponse(o)
  \/ \E k \in FailureKinds : GenerateFailure(k)
  \/ \E s \in SessionIds : Tick(s)
  \/ \E s \in SessionIds, resp \in StatusResponses : PollResponse(s, resp)
  \/ \E s \in SessionIds, k \in FailureKinds : PollFailure(s, k)

Spec == Init /\ [][Next]_vars

\* The page with its unmount: the cleanup runs once, at any time, and the
\* requests and handleSubmit calls then outstanding still complete.
NextUnmount == Next \/ Unmount
SpecUnmount == Init /\ [][NextUnmount]_vars

\* The page with a responsive service: every status request is answered or
\* fails (weak fairness of the completions), the interval timer keeps
\* firing (weak fairness of the ticks), and the service answers with a
\* terminal status or an error at the latest to the last request explored.
\* The events are those of polling: filling the form, submit, startPolling,
\* reset, ticks and completions; the answers are an empty 'processing' one
\* and the three terminal ones.
LiveResponses ==
  { r \in StatusResponses :
      r.status \in {"succeeded", "failed", "canceled"}
        \/ (r.status = "processing" /\ r.message = EMPTY) }

LastRequest(s) ==
  TotalIssued = MaxRequests /\ inflight[s] = 1 /\ s \in liveTimers

EventuallyFinal(s, resp) ==
  LastRequest(s) =>
    (Truthy(resp.error) \/ resp.status \in {"succeeded", "failed", "canceled"})

AnswerArrives(s) ==
  \/ \E resp \in LiveResponses :
       EventuallyFinal(s, resp) /\ PollResponse(s, resp)
  \/ \E k \in FailureKinds : PollFailure(s, k)

NextLive ==
  \/ \E b \in BOOLEAN : SetModelImage(b)
  \/ \E t \in UploadSlots, b \in BOOLEAN : handleClothingUpload(t, b)
  \/ handleReset
  \/ handleSubmit
  \/ \E ok \in BOOLEAN : CompressModelDone(ok)
  \/ \E ok \in BOOLEAN : CompressClothingDone(ok)
  \/ \E o \in GenerateOutcomes : GenerateResponse(o)
  \/ \E k \in FailureKinds : GenerateFailure(k)
  \/ \E s \in SessionIds : Tick(s)
  \/ \E s \in SessionIds : AnswerArrives(s)

\* Both fair actions change inflight, so it serves as their subscript.
SpecLive ==
  /\ Init
  /\ [][NextLive]_vars
  /\ \A s \in SessionIds : WF_inflight(Tick(s))
  /\ \A s \in SessionIds : WF_inflight(AnswerArrives(s))

\* ------------------------------------------------------------ API client
\* generateMatchingSet and checkJobStatus of the API client, one call at a
\* time: the arguments are drawn at the start, the answer of the service
\* is chosen when it arrives.
ClothingKeys == {"top_image", "bottom_image", "outer_image", "dress_image"}
ModelFile == "file:model"
ClothingFile(k) == "file:" \o k

\* ClothingImages: every key is optional.
ClothingImagesArgs ==
  { [k \in ClothingKeys |-> IF k \in present THEN ClothingFile(k) ELSE NULL] :
      present \in SUBSET ClothingKeys }

ApiCalls ==
  [endpoint : {"remix-images"}, modelImage : {ModelFile},
   clothingImages : ClothingImagesArgs, numOutputs : (0 - 1)..MaxNumOutputs]
  \cup
  [endpoint : {"status"}, modelImage : {NULL},
   clothingImages : [ClothingKeys -> {NULL}], numOutputs : {1}]

\* Number.prototype.toString of an integer, in base ten.
Digit(d) ==
  CASE d = 0 -> "0" [] d = 1 -> "1" [] d = 2 -> "2" [] d = 3 -> "3"
    [] d = 4 -> "4" [] d = 5 -> "5" [] d = 6 -> "6" [] d = 7 -> "7"
    [] d = 8 -> "8" [] d = 9 -> "9"
RECURSIVE NumberToString(_)
NumberToString(n) ==
  IF n < 0 THEN "-" \o NumberToString(0 - n)
  ELSE IF n < 10 THEN Digit(n)
  ELSE NumberToString(n \div 10) \o Digit(n % 10)

\* if (value) formData.append(name, value)
AppendIf(fd, cond, name, value) ==
  IF cond THEN Append(fd, <<name, value>>) ELSE fd

\* Variant: the dress_image part is never appended.
ClothingParts_NoDress(fd, imgs) ==
  LET f1 == AppendIf(fd, imgs.top_image # NULL, "top_image", imgs.top_image)
      f2 == AppendIf(f1, imgs.bottom_image # NULL, "bottom_image",
                     imgs.bottom_image)
  IN AppendIf(f2, imgs.outer_image # NULL, "outer_image", imgs.outer_image)

\* The four optional clothing parts, in the order the code appends them.
ClothingParts(fd, imgs) ==
  LET f1 == AppendIf(fd, imgs.top_image # NULL, "top_image", imgs.top_image)
      f2 == AppendIf(f1, imgs.bottom_image # NULL, "bottom_image",
                     imgs.bottom_image)
      f3 == AppendIf(f2, imgs.outer_image # NULL, "outer_image",
                     imgs.outer_image)
  IN AppendIf(f3, imgs.dress_image # NULL, "dress_image", imgs.dress_image)

\* Variant: a single output is not passed on.
NumOutputsInRange_Above1(n) == n > 1 /\ n <= 4

\* numOutputs >= 1 && numOutputs <= 4
NumOutputsInRange(n) == n >= 1 /\ n <= 4

\* The multipart body of POST {base}/remix-images.
BuildFormData(args) ==
  LET f0 == <<<<"model_image", args.modelImage>>>>
      f4 == ClothingParts(f0, args.clothingImages)
  IN AppendIf(f4, NumOutputsInRange(args.numOutputs), "num_outputs",
              NumberToString(args.numOutputs))

\* The statuses and bodies of the non-2xx answers explored.  A body is
\* absent, or text that is not JSON, or JSON: an object with a message,
\* with an empty message, without message, or the JSON value null.  The
\* value of a body is what JSON.parse makes of it when it is JSON.
ErrorStatuses == {400, 500}
ErrorBodies ==
  { [kind |-> "absent", value |-> JsonNull],
    [kind |-> "text", value |-> JsonNull],
    [kind |-> "json", value |-> JsonObject("m")],
    [kind |-> "json", value |-> JsonObject(EMPTY)],
    [kind |-> "json", value |-> JsonObject(NULL)],
    [kind |-> "json", value |-> JsonNull] }
Responses ==
  [ok : {FALSE}, status : ErrorStatuses, body : ErrorBodies]
  \cup { [ok |-> TRUE, status |-> 200,
          body |-> [kind |-> "json", value |-> JsonObject("m")]] }

\* response.json(): rejects unless the body is JSON text.
ResponseJson(body) ==
  IF body.kind = "json" THEN [ok |-> TRUE, value |-> body.value]
  ELSE [ok |-> FALSE, value |-> JsonNull]

\* Variant: the catch handler yields an object without message.
ErrorData_NoDefault(body) ==
  IF ResponseJson(body).ok THEN ResponseJson(body).value
  ELSE JsonObject(NULL)

\* await response.json().catch(() => ({ message: 'Unknown error' }))
ErrorData(body) ==
  IF ResponseJson(body).ok THEN ResponseJson(body).value
  ELSE JsonObject("Unknown error")

\* `HTTP error! status: ${response.status}`
HttpErrorMessage(code) == "HTTP error! status: " \o NumberToString(code)

\* Reading .message of null throws a TypeError instead.
TypeErrorMessage == "Cannot read properties of null (reading 'message')"

\* The message of the Error thrown for a non-2xx answer, the same code in
\* both functions: errorData.message || `HTTP error! status: ...`
NonOkMessage(resp) ==
  LET errorData == ErrorData(resp.body)
  IN IF errorData = JsonNull THEN TypeErrorMessage
     ELSE IF Truthy(errorData.message) THEN errorData.message
     ELSE HttpErrorMessage(resp.status)

\* generateMatchingSet(modelImage, clothingImages, numOutputs) up to fetch.
generateMatchingSet ==
  /\ apiPc = "idle"
  /\ apiArgs.endpoint = "remix-images"
  /\ IF ~urlConfigured
     THEN apiPc' = "thrown" /\ apiError' = NotConfigured /\ formData' = formData
     ELSE /\ formData' = BuildFormData(apiArgs)
          /\ apiPc' = "fetching"
          /\ apiError' = apiError
  /\ UNCHANGED <<apiArgs, response, apiOthers>>

\* checkJobStatus(predictionId) up to fetch: the body is JSON, not a form.
checkJobStatus ==
  /\ apiPc = "idle"
  /\ apiArgs.endpoint = "status"
  /\ IF ~urlConfigured
     THEN apiPc' = "thrown" /\ apiError' = NotConfigured
     ELSE apiPc' = "fetching" /\ apiError' = apiError
  /\ UNCHANGED <<apiArgs, formData, response, apiOthers>>

\* fetch resolved: a 2xx answer is returned, any other one is thrown.
FetchResolved(resp) ==
  /\ apiPc = "fetching"
  /\ response' = resp
  /\ IF resp.ok
     THEN apiPc' = "returned" /\ apiError' = apiError
     ELSE apiPc' = "thrown" /\ apiError' = NonOkMessage(resp)
  /\ UNCHANGED <<apiArgs, formData, apiOthers>>

\* fetch rejected: the network error is thrown as it is.
FetchRejected ==
  /\ apiPc = "fetching"
  /\ apiPc' = "thrown"
  /\ apiError' = "Failed to fetch"
  /\ UNCHANGED <<apiArgs, formData, response, apiOthers>>

InitApi ==
  /\ urlConfigured \in BOOLEAN
  /\ PageInit
  /\ CompressIdle
  /\ BatchIdle
  /\ GalleryIdle
  /\ MultiIdle
  /\ apiArgs \in ApiCalls
  /\ formData = <<>>
  /\ apiPc = "idle"
  /\ apiError = NULL
  /\ response = NoResponse

NextApi ==
  \/ generateMatchingSet
  \/ checkJobStatus
  \/ \E resp \in Responses : FetchResolved(resp)
  \/ FetchRejected

SpecApi == InitApi /\ [][NextApi]_vars

\* -------------------------------------------------------- compressImage
\* One call of compressImage(file, maxWidth, maxHeight, quality,
\* maxSizeMB).  Each action is one callback of the browser: the call
\* itself, reader.onload / onerror, img.onload / onerror, and the
\* callbacks of the two canvas.toBlob calls.  Qualities are in hundredths;
\* the size of an encoded blob is the encoder's choice.
MB == 1024 * 1024
Budget(mb) == mb * MB            \* maxSizeMB * 1024 * 1024
QualityFloor == 30               \* 0.3
QualityStep == 20                \* 0.2
Now == 1                         \* Date.now(), later than any input's stamp

SizeSamples == UNION { {k * MB - 1, k * MB, k * MB + 1} : k \in 1..MaxMB }
Qualities == {10, 30, 31, 50, 51, 80, 100}
InputFiles ==
  [name : {"in.png"}, size : SizeSamples, type : {"image/png", EMPTY},
   lastModified : {0}]
Blobs == [present : {TRUE}, size : SizeSamples] \cup {NoBlob}

Resolved(f) == [state |-> "resolved", file |-> f, reason |-> EMPTY]
Rejected(msg) == [state |-> "rejected", file |-> NoFile, reason |-> msg]

\* new File([b], file.name, {type: file.type || 'image/jpeg',
\*                           lastModified: Date.now()})
NewFile(b) ==
  [name |-> file.name, size |-> b.size,
   type |-> IF file.type # EMPTY THEN file.type ELSE "image/jpeg",
   lastModified |-> Now]

\* Variant: a file of exactly the budget is compressed.
FastPath_Strict(size, mb) == size < Budget(mb)

\* file.size <= maxSizeMB * 1024 * 1024
FastPath(size, mb) == size <= Budget(mb)

\* Variants: the first result is always final; a quality at the floor
\* still allows the second encode.
NeedsSecondEncode_Never(size, mb, q) == FALSE
NeedsSecondEncode_AtFloor(size, mb, q) ==
  size > Budget(mb) /\ q >= QualityFloor

\* blob.size > maxSizeMB * 1024 * 1024 && quality > 0.3
NeedsSecondEncode(size, mb, q) == size > Budget(mb) /\ q > QualityFloor

\* Variant: the floor is not applied.
SecondQuality_NoFloor(q) == q - QualityStep

\* Math.max(0.3, quality - 0.2)
SecondQuality(q) ==
  IF q - QualityStep > QualityFloor THEN q - QualityStep ELSE QualityFloor

\* The images decoded and the bounds passed, as <<width, height>>.
ImageSizes ==
  { <<4000, 2000>>, <<2000, 4000>>, <<3000, 2001>>, <<1925, 1000>>,
    <<1000, 1924>>, <<1920, 1920>>, <<1920, 1080>>, <<800, 600>> }
MaxSizes == { <<1920, 1920>>, <<1280, 720>> }

\* Exact arithmetic on positive fractions <<n, d>> in lowest terms.
RECURSIVE GCD(_, _)
GCD(a, b) == IF b = 0 THEN a ELSE GCD(b, a % b)
Frac(n, d) == <<n \div GCD(n, d), d \div GCD(n, d)>>
FracLeq(x, y) == x[1] * y[2] <= y[1] * x[2]
FracMin(x, y) == IF FracLeq(x, y) THEN x ELSE y      \* Math.min
FracMul(x, y) ==
  LET g1 == GCD(x[1], y[2])
      g2 == GCD(y[1], x[2])
  IN <<(x[1] \div g1) * (y[1] \div g2), (x[2] \div g2) * (y[2] \div g1)>>
\* Conversion of a number to the unsigned long of canvas.width / height.
ToUnsignedLong(x) == x[1] \div x[2]

\* Variant: each dimension is scaled by the factor of its own bound.
TargetSize_PerAxis(w, h, mw, mh) ==
  IF w > mw \/ h > mh
  THEN [width |-> FracMul(Frac(w, 1), Frac(mw, w)),
        height |-> FracMul(Frac(h, 1), Frac(mh, h))]
  ELSE [width |-> Frac(w, 1), height |-> Frac(h, 1)]

\* The new dimensions (part_000:29-36): one factor for both when either
\* bound is exceeded.
TargetSize(w, h, mw, mh) ==
  IF w > mw \/ h > mh
  THEN LET ratio == FracMin(Frac(mw, w), Frac(mh, h))
       IN [width |-> FracMul(Frac(w, 1), ratio),
           height |-> FracMul(Frac(h, 1), ratio)]
  ELSE [width |-> Frac(w, 1), height |-> Frac(h, 1)]

compressArgs == <<file, quality, maxSizeMB, maxWidth, maxHeight>>
sizes == <<img, width, height, canvas>>

\* resolve(...) / reject(...): the promise settles and nothing is pending.
Settle(result) ==
  /\ settled' = result
  /\ compressPc' = "done"

\* compressImage(...): the executor of the promise, up to readAsDataURL.
compressImage ==
  /\ compressPc = "idle"
  /\ file # NoFile
  /\ IF FastPath(file.size, maxSizeMB)
     THEN Settle(Resolved(file)) /\ trace' = trace
     ELSE /\ compressPc' = "reading"
          /\ trace' = Append(trace, "readAsDataURL")
          /\ settled' = settled
  /\ UNCHANGED <<compressArgs, sizes, blob, smallerBlob, encodeQualities, others>>

\* reader.onload: the data URL is handed to a new Image.
ReaderOnload ==
  /\ compressPc = "reading"
  /\ compressPc' = "loading"
  /\ trace' = trace \o <<"reader.onload", "img.src">>
  /\ UNCHANGED <<compressArgs, sizes, blob, smallerBlob, encodeQualities, settled, others>>

\* reader.onerror
ReaderOnerror ==
  /\ compressPc = "reading"
  /\ Settle(Rejected("Failed to read file"))
  /\ UNCHANGED <<compressArgs, sizes, blob, smallerBlob, trace, encodeQualities, others>>

\* Variant: the first toBlob is called before the image is drawn.
ImgOnload_EncodeBeforeDraw(w, h, ctxOk) ==
  /\ compressPc = "loading"
  /\ img' = [width |-> w, height |-> h]
  /\ width' = TargetSize(w, h, maxWidth, maxHeight).width
  /\ height' = TargetSize(w, h, maxWidth, maxHeight).height
  /\ canvas' = [width |-> ToUnsignedLong(width'),
                height |-> ToUnsignedLong(height')]
  /\ IF ~ctxOk
     THEN /\ Settle(Rejected("Failed to get canvas context"))
          /\ trace' = trace \o <<"img.onload", "resize", "getContext">>
          /\ encodeQualities' = encodeQualities
     ELSE /\ compressPc' = "encode1"
          /\ trace' = trace \o <<"img.onload", "resize", "getContext",
                                 "toBlob", "drawImage">>
          /\ encodeQualities' = Append(encodeQualities, quality)
          /\ settled' = settled
  /\ UNCHANGED <<compressArgs, blob, smallerBlob, others>>

\* img.onload: the new dimensions, canvas, context, drawImage and the first
\* toBlob call.
ImgOnload(w, h, ctxOk) ==
  /\ compressPc = "loading"
  /\ img' = [width |-> w, height |-> h]
  /\ width' = TargetSize(w, h, maxWidth, maxHeight).width
  /\ height' = TargetSize(w, h, maxWidth, maxHeight).height
  /\ canvas' = [width |-> ToUnsignedLong(width'),
                height |-> ToUnsignedLong(height')]
  /\ IF ~ctxOk
     THEN /\ Settle(Rejected("Failed to get canvas context"))
          /\ trace' = trace \o <<"img.onload", "resize", "getContext">>
          /\ encodeQualities' = encodeQualities
     ELSE /\ compressPc' = "encode1"
          /\ trace' = trace \o <<"img.onload", "resize", "getContext",
                                 "drawImage", "toBlob">>
          /\ encodeQualities' = Append(encodeQualities, quality)
          /\ settled' = settled
  /\ UNCHANGED <<compressArgs, blob, smallerBlob, others>>

\* Variant: a decode failure hands the input file back.
ImgOnerror_Resolves ==
  /\ compressPc = "loading"
  /\ Settle(Resolved(file))
  /\ UNCHANGED <<compressArgs, sizes, blob, smallerBlob, trace, encodeQualities, others>>

\* img.onerror
ImgOnerror ==
  /\ compressPc = "loading"
  /\ Settle(Rejected("Failed to load image"))
  /\ UNCHANGED <<compressArgs, sizes, blob, smallerBlob, trace, encodeQualities, others>>

\* The callback of the first canvas.toBlob.
FirstBlobCallback(b) ==
  /\ compressPc = "encode1"
  /\ blob' = b
  /\ IF ~b.present
     THEN /\ Settle(Rejected("Failed to compress image"))
          /\ trace' = Append(trace, "callback")
          /\ encodeQualities' = encodeQualities
     ELSE IF NeedsSecondEncode(b.size, maxSizeMB, quality)
     THEN /\ compressPc' = "encode2"
          /\ trace' = trace \o <<"callback", "toBlob">>
          /\ encodeQualities' = Append(encodeQualities, SecondQuality(quality))
          /\ settled' = settled
     ELSE /\ Settle(Resolved(NewFile(b)))
          /\ trace' = Append(trace, "callback")
          /\ encodeQualities' = encodeQualities
  /\ UNCHANGED <<compressArgs, sizes, smallerBlob, others>>

\* Variants of the second callback: one encodes again while the result
\* is over the budget, one rejects when there is no blob.
SecondBlobCallback_Retry(b) ==
  /\ compressPc = "encode2"
  /\ Len(encodeQualities) < 4
  /\ smallerBlob' = b
  /\ IF b.present /\ b.size > Budget(maxSizeMB)
     THEN /\ compressPc' = "encode2"
          /\ trace' = trace \o <<"callback", "toBlob">>
          /\ encodeQualities' = Append(encodeQualities, QualityFloor)
          /\ settled' = settled
     ELSE /\ Settle(Resolved(NewFile(IF b.present THEN b ELSE blob)))
          /\ trace' = Append(trace, "callback")
          /\ encodeQualities' = encodeQualities
  /\ UNCHANGED <<compressArgs, sizes, blob, others>>
SecondBlobCallback_Rejects(b) ==
  /\ compressPc = "encode2"
  /\ smallerBlob' = b
  /\ IF ~b.present
     THEN Settle(Rejected("Failed to compress image"))
     ELSE Settle(Resolved(NewFile(b)))
  /\ trace' = Append(trace, "callback")
  /\ UNCHANGED <<compressArgs, sizes, blob, encodeQualities, others>>

\* The callback of the second canvas.toBlob: no blob falls back to the
\* first one, any blob is final.
SecondBlobCallback(b) ==
  /\ compressPc = "encode2"
  /\ smallerBlob' = b
  /\ IF ~b.present
     THEN Settle(Resolved(NewFile(blob)))
     ELSE Settle(Resolved(NewFile(b)))
  /\ trace' = Append(trace, "callback")
  /\ UNCHANGED <<compressArgs, sizes, blob, encodeQualities, others>>

InitCompress ==
  /\ urlConfigured = TRUE
  /\ PageInit
  /\ ApiIdle
  /\ BatchIdle
  /\ GalleryIdle
  /\ MultiIdle
  /\ file \in InputFiles
  /\ quality \in Qualities
  /\ maxSizeMB \in 1..MaxMB
  /\ \E m \in MaxSizes : maxWidth = m[1] /\ maxHeight = m[2]
  /\ img = NoSize
  /\ width = <<0, 1>>
  /\ height = <<0, 1>>
  /\ canvas = NoSize
  /\ compressPc = "idle"
  /\ blob = NoBlob
  /\ smallerBlob = NoBlob
  /\ trace = <<>>
  /\ encodeQualities = <<>>
  /\ settled = Pending

NextCompress ==
  \/ compressImage
  \/ ReaderOnload
  \/ ReaderOnerror
  \/ \E sz \in ImageSizes, ctxOk \in BOOLEAN : ImgOnload(sz[1], sz[2], ctxOk)
  \/ ImgOnerror
  \/ \E b \in Blobs : FirstBlobCallback(b)
  \/ \E b \in Blobs : SecondBlobCallback(b)

SpecCompress == InitCompress /\ [][NextCompress]_vars

\* ------------------------------------------------------- compressImages
\* One call of compressImages(files, options): Promise.all over one
\* compressImage call per file.  Each compressImage call settles in one
\* step, in any order, with the input file itself, a new file of the same
\* name, or a rejection; the reaction of Promise.all runs in the same step.
FileNames == <<"a.png", "b.png", "c.png", "d.png", "e.png">>
BatchFile(i) ==
  [name |-> FileNames[i], size |-> 2 * MB, type |-> "image/png",
   lastModified |-> 0]
FileLists == { [i \in 1..n |-> BatchFile(i)] : n \in 0..MaxFiles }

\* The ways compressImage(f, ...) can settle.
CompressOutcomes(f) ==
  { Resolved(f),
    Resolved([f EXCEPT !.size = MB, !.lastModified = Now]),
    Rejected("Failed to read file"),
    Rejected("Failed to load image") }

batchOthers == <<page, urlConfigured, api, compress, gallery, multi>>

\* compressImages(files, options) up to its await.  Promise.all of an
\* empty list is fulfilled with an empty list.
compressImages ==
  /\ compressedFiles.state = "idle"
  /\ promises' = [i \in 1..Len(files) |-> Pending]
  /\ values' = [i \in 1..Len(files) |-> NoFile]
  /\ compressedFiles' =
       IF Len(files) = 0
       THEN [state |-> "resolved", list |-> <<>>, reason |-> EMPTY]
       ELSE [state |-> "pending", list |-> <<>>, reason |-> EMPTY]
  /\ UNCHANGED <<files, finished, batchOthers>>

\* Variant: a result is stored in the first free place.
StoreValue_Push(vals, i, f) ==
  LET free == CHOOSE k \in 1..Len(vals) :
                vals[k] = NoFile /\ \A j \in 1..(k - 1) : vals[j] # NoFile
  IN [vals EXCEPT ![free] = f]

\* Promise.all keeps each result at the index of its promise.
StoreValue(vals, i, f) == [vals EXCEPT ![i] = f]

\* The compressImage call of files[i] settles; Promise.all reacts: the
\* first rejection rejects the batch, the last fulfilment fulfils it.
PromiseSettles(i, result) ==
  /\ compressedFiles.state # "idle"
  /\ i \in 1..Len(promises)
  /\ promises[i] = Pending
  /\ promises' = [promises EXCEPT ![i] = result]
  /\ finished' = Append(finished, i)
  /\ IF result.state = "rejected"
     THEN /\ values' = values
          /\ compressedFiles' =
               IF compressedFiles.state = "pending"
               THEN [state |-> "rejected", list |-> <<>>,
                     reason |-> result.reason]
               ELSE compressedFiles
     ELSE /\ values' = StoreValue(values, i, result.file)
          /\ compressedFiles' =
               IF compressedFiles.state = "pending"
                    /\ \A j \in 1..Len(promises) : promises'[j].state = "resolved"
               THEN [state |-> "resolved", list |-> values', reason |-> EMPTY]
               ELSE compressedFiles
  /\ UNCHANGED <<files, batchOthers>>

InitBatch ==
  /\ urlConfigured = TRUE
  /\ PageInit
  /\ ApiIdle
  /\ CompressIdle
  /\ GalleryIdle
  /\ MultiIdle
  /\ files \in FileLists
  /\ promises = <<>>
  /\ values = <<>>
  /\ compressedFiles = NotCalled
  /\ finished = <<>>

NextBatch ==
  \/ compressImages
  \/ \E i \in 1..MaxFiles :
       \E result \in CompressOutcomes(BatchFile(i)) : PromiseSettles(i, result)

SpecBatch == InitBatch /\ [][NextBatch]_vars

\* ------------------------------------------------------------ gallery
\* The result gallery in front of the page, from a finished generation to
\* the next submission: which URL handleSubmit fetches as the model image.
\* generatedImages is the page model's token for a non-null value here;
\* imageArray is its content.
GalleryUrls == {URL1, "url2", "url3"}

\* data.output: a list of distinct URLs, possibly empty.
ImageLists ==
  { l \in UNION { [1..n -> GalleryUrls] : n \in 0..MaxImages } :
      \A i, j \in DOMAIN l : i # j => l[i] # l[j] }

\* externalSelectedImage !== undefined ? externalSelectedImage : selectedImage
\* The page always passes selectedImage={selectedGeneratedImage}.
displaySelectedImage == selectedGeneratedImage

\* The full-size preview covers the page while it is shown.
ModalOpen == Truthy(displaySelectedImage)

galleryOthers ==
  <<mounted, urlConfigured, form, isGenerating, isCompressing, predictionId,
    status, statusMessage, generatedImages, error, currentStep,
    pollingIntervalRef, liveTimers, sessions, inflight, flows, hist, api,
    compress, batch, multi>>

\* ResultGallery.handleImageClick(imageUrl), on the i-th image of the grid.
GalleryImageClick(i) ==
  /\ GalleryVisible
  /\ ~ModalOpen
  /\ i \in DOMAIN imageArray
  /\ selectedGeneratedImage' = imageArray[i]
  /\ selectedImage' = imageArray[i]
  /\ picked' = imageArray[i]
  /\ UNCHANGED <<galleryOthers, imageArray, modelUrl>>

\* ResultGallery.handleCloseModal: a click on the preview's backdrop or on
\* its Close button.
GalleryCloseModal ==
  /\ GalleryVisible
  /\ ModalOpen
  /\ selectedGeneratedImage' = NULL
  /\ selectedImage' = NULL
  /\ UNCHANGED <<galleryOthers, imageArray, picked, modelUrl>>

\* handleSubmit in the 'adding' step, up to the fetch of the model image
\* (page.tsx:102-161); the rest of the handler is handleSubmit of the page
\* model.  The closure reads the generatedImages of its render.  The form
\* can be submitted from the keyboard while the preview is shown.
handleSubmitAdding ==
  /\ SubmitEnabled
  /\ currentStep = "adding"
  /\ generatedImages' = NULL
  /\ status' = EMPTY
  /\ statusMessage' = EMPTY
  /\ IF ~Truthy(selectedGeneratedImage) /\ Len(imageArray) = 0
     THEN /\ SubmitCatch("No generated image available to continue")
          /\ UNCHANGED modelUrl
     ELSE /\ error' = NULL
          /\ isGenerating' = TRUE
          /\ isCompressing' = TRUE
          /\ modelUrl' = IF ~Truthy(selectedGeneratedImage) THEN imageArray[1]
                         ELSE selectedGeneratedImage
  /\ UNCHANGED <<mounted, urlConfigured, form, predictionId, currentStep,
                 selectedGeneratedImage, pollingIntervalRef, liveTimers,
                 sessions, inflight, flows, hist, api, compress, batch, multi,
                 imageArray, selectedImage, picked>>

\* The page showing the images of a finished generation.
InitGallery ==
  /\ urlConfigured = TRUE
  /\ mounted = TRUE
  /\ modelImage = TRUE
  /\ clothing = "none"
  /\ isGenerating = FALSE
  /\ isCompressing = FALSE
  /\ predictionId = 1
  /\ status = "succeeded"
  /\ statusMessage = "m"
  /\ generatedImages = URL1
  /\ error = NULL
  /\ currentStep = "initial"
  /\ selectedGeneratedImage = NULL
  /\ pollingIntervalRef = 0
  /\ liveTimers = {}
  /\ sessions = 1
  /\ inflight = [s \in SessionIds |-> 0]
  /\ submits = [pc \in SubmitAwaits |-> 0]
  /\ failedSubmits = 0
  /\ hist = [s \in SessionIds |-> NoHist]
  /\ ApiIdle
  /\ CompressIdle
  /\ BatchIdle
  /\ MultiIdle
  /\ imageArray \in ImageLists
  /\ selectedImage = NULL
  /\ picked = NULL
  /\ modelUrl = NULL

NextGallery ==
  \/ \E i \in 1..MaxImages : GalleryImageClick(i)
  \/ GalleryCloseModal
  \/ handleContinueAdding
  \/ \E t \in UploadSlots, b \in BOOLEAN : handleClothingUpload(t, b)
  \/ handleSubmitAdding

SpecGallery == InitGallery /\ [][NextGallery]_vars

\* ------------------------------------------------ multi-slot handleSubmit
\* One call of the handleSubmit that sends up to four clothing images: the
\* compressions it starts, the list Promise.all resolves with, and the
\* clothingImages object it reads back out of that list.
\* clothingTypes, in the order of the array literal.
SlotOrder == <<"top_image", "bottom_image", "outer_image", "dress_image">>

\* compressImage resolves with the file it was given (fast path) or with a
\* new file made from it.
Recompressed(f) == "compressed:" \o f
CompressedOf(f) == {f, Recompressed(f)}

\* array[i] of JavaScript, indices from 0: undefined beyond the end.
At(list, i) == IF i + 1 \in DOMAIN list THEN list[i + 1] ELSE NULL

\* for (const { files } of clothingTypes)
\*   if (files.length > 0) compressionPromises.push(compressImage(files[0], ...))
RECURSIVE PushFrom(_, _, _)
PushFrom(n, slots, list) ==
  IF n > Len(SlotOrder) THEN list
  ELSE PushFrom(n + 1, slots,
                IF slots[SlotOrder[n]] # NULL
                THEN Append(list, slots[SlotOrder[n]]) ELSE list)

\* Variant: the index is not advanced.
NextIndex_Same(i) == i

\* compressedIndex++
NextIndex(i) == i + 1

\* The four if-statements that read the compressed files back, from the
\* n-th on: the clothingImages object and the final compressedIndex.
RECURSIVE AssignFrom(_, _, _, _, _)
AssignFrom(n, slots, compressed, imgs, index) ==
  IF n > Len(SlotOrder) THEN [clothingImages |-> imgs, index |-> index]
  ELSE IF slots[SlotOrder[n]] # NULL
  THEN AssignFrom(n + 1, slots, compressed,
                  [imgs EXCEPT ![SlotOrder[n]] = At(compressed, index)],
                  NextIndex(index))
  ELSE AssignFrom(n + 1, slots, compressed, imgs, index)

multiOthers ==
  <<mounted, urlConfigured, form, predictionId, currentStep,
    selectedGeneratedImage, pollingIntervalRef, liveTimers, sessions,
    inflight, flows, hist, api, compress, batch, gallery, slotFiles>>

\* handleSubmit up to `await Promise.all(compressionPromises)`.
handleSubmitMulti ==
  /\ multiPc = "idle"
  /\ generatedImages' = NULL
  /\ status' = EMPTY
  /\ statusMessage' = EMPTY
  /\ IF ~modelImage
     THEN /\ error' = "Please select a model image"
          /\ multiPc' = "returned"
          /\ UNCHANGED <<isGenerating, isCompressing, compressionPromises>>
     ELSE IF \A k \in ClothingKeys : slotFiles[k] = NULL
     THEN /\ error' = "Please select at least one clothing image (top, bottom, outer, or dress)"
          /\ multiPc' = "returned"
          /\ UNCHANGED <<isGenerating, isCompressing, compressionPromises>>
     ELSE /\ error' = NULL
          /\ isGenerating' = TRUE
          /\ isCompressing' = TRUE
          /\ compressionPromises' = PushFrom(1, slotFiles, <<ModelFile>>)
          /\ multiPc' = "compressing"
  /\ UNCHANGED <<multiOthers, compressedImages, clothingImagesArg,
                 compressedIndex, request>>

\* Promise.all fulfilled: the handler runs on to the fetch inside
\* generateMatchingSet, which throws first when the URL is not configured.
CompressionsResolve ==
  /\ multiPc = "compressing"
  /\ \E fresh \in [DOMAIN compressionPromises -> BOOLEAN] :
       LET compressed ==
             [i \in DOMAIN compressionPromises |->
                IF fresh[i] THEN Recompressed(compressionPromises[i])
                ELSE compressionPromises[i]]
           built == AssignFrom(1, slotFiles, compressed,
                               [k \in ClothingKeys |-> NULL], 1)
       IN /\ compressedImages' = compressed
          /\ clothingImagesArg' = built.clothingImages
          /\ compressedIndex' = built.index
          /\ IF urlConfigured
             THEN /\ request' =
                       BuildFormData([modelImage |-> At(compressed, 0),
                                      clothingImages |-> built.clothingImages,
                                      numOutputs |-> 1])
                  /\ isCompressing' = FALSE
                  /\ multiPc' = "fetching"
                  /\ UNCHANGED <<error, isGenerating>>
             ELSE /\ SubmitCatch(NotConfigured)
                  /\ multiPc' = "failed"
                  /\ UNCHANGED request
  /\ UNCHANGED <<multiOthers, generatedImages, status, statusMessage,
                 compressionPromises>>

\* Promise.all rejected: the catch block.
CompressionsReject ==
  /\ multiPc = "compressing"
  /\ SubmitCatch("Failed to load image")
  /\ multiPc' = "failed"
  /\ UNCHANGED <<multiOthers, generatedImages, status, statusMessage,
                 compressionPromises, compressedImages, clothingImagesArg,
                 compressedIndex, request>>

InitMulti ==
  /\ urlConfigured \in BOOLEAN
  /\ PageInit
  /\ ApiIdle
  /\ CompressIdle
  /\ BatchIdle
  /\ GalleryIdle
  /\ slotFiles \in ClothingImagesArgs
  /\ compressionPromises = <<>>
  /\ compressedImages = <<>>
  /\ clothingImagesArg = <<>>
  /\ compressedIndex = 0
  /\ request = <<>>
  /\ multiPc = "idle"

NextMulti ==
  \/ \E b \in BOOLEAN : SetModelImage(b)
  \/ handleSubmitMulti
  \/ CompressionsResolve
  \/ CompressionsReject

SpecMulti == InitMulti /\ [][NextMulti]_vars

\* ---------------------------------------------------------------- claims
\* A step in which a status request of session s is answered or fails, and
\* one in which its 2xx answer is applied to the page state.
Completes(s) == inflight'[s] = inflight[s] - 1
Applied(s) == Completes(s) /\ hist'[s].applied = hist[s].applied + 1
Started(s) == s \in SessionIds /\ s <= sessions

\* C1: once a session has handled an answer with a terminal tag or a
\* non-empty error, its interval timer is not live and, from then on, the
\* session issues no further status request.
C1_FinalAnswerStopsSession ==
  [][\A s \in SessionIds :
       hist'[s].stopSeen =>
         /\ s \notin liveTimers'
         /\ hist[s].stopSeen => hist'[s].issued = hist[s].issued]_vars

C1_Witness ==
  \E s \in SessionIds :
    /\ hist[s].stopSeen /\ s \notin liveTimers
    /\ status = "processing" /\ error = "e" /\ ~isGenerating

\* C2: the answer of a status request that was outstanding when handleReset
\* cleared the session's timer changes none of status, statusMessage,
\* generatedImages, error, isGenerating when it arrives.
C2_LateAnswerIgnoredAfterCancel ==
  [][\A s \in SessionIds :
       (hist[s].cancelled /\ Completes(s)) =>
         UNCHANGED <<status, statusMessage, generatedImages, error,
                     isGenerating>>]_vars

\* C3: when a later session has been started, the earlier session's timer is
\* not live and no answer to a request of an earlier session changes status,
\* statusMessage, generatedImages or error.
C3_OnlyLatestSessionObserved ==
  [][/\ \A s \in SessionIds : s < sessions' => s \notin liveTimers'
     /\ \A s \in SessionIds :
          (s < sessions /\ Completes(s)) =>
            UNCHANGED <<status, statusMessage, generatedImages, error>>]_vars

\* C4 as stated: a session whose first final answer was its k-th answer has
\* issued exactly k requests and applied exactly k answers.
C4_ExactlyKRequests ==
  \A s \in SessionIds :
    hist[s].stopSeen =>
      hist[s].issued = hist[s].firstStop /\ hist[s].applied = hist[s].firstStop

\* C4 amended: the same, for a session none of whose requests was issued
\* while an earlier one was outstanding (answers faster than the interval).
C4_ExactlyKRequestsWithoutOverlap ==
  \A s \in SessionIds :
    (hist[s].stopSeen /\ ~hist[s].overlapped) =>
      hist[s].issued = hist[s].firstStop /\ hist[s].applied = hist[s].firstStop

C4_Witness ==
  \E s \in SessionIds :
    /\ hist[s].stopSeen /\ ~hist[s].overlapped
    /\ hist[s].firstStop = 3 /\ hist[s].issued = 3 /\ status = "succeeded"

\* C5 as stated: a session never has more than one status request in flight.
C5_AtMostOneInFlight ==
  \A s \in SessionIds : Outstanding(s) <= 1

\* C5 amended: every tick of a session's timer puts one more status request
\* in flight, whether or not earlier requests are outstanding.
C5_EveryTickPolls ==
  [][\A s \in SessionIds :
       hist'[s].ticks = hist[s].ticks + 1 =>
         s \in liveTimers /\ inflight'[s] = inflight[s] + 1]_vars

C5_Witness ==
  \E s \in SessionIds : s \in liveTimers /\ Outstanding(s) >= 2

\* C6: an answer whose status tag is 'succeeded', 'failed' or 'canceled' in
\* any letter case stops the session: timer not live, isGenerating false.
C6_TerminalTagsCaseInsensitive ==
  [][\A s \in SessionIds :
       (Applied(s) /\ toLowerCase(status') \in {"succeeded", "failed", "canceled"})
         => s \notin liveTimers' /\ ~isGenerating']_vars

C8_NonTerminalKeepsPolling ==
  [][/\ \A s \in SessionIds :
          (Applied(s) /\ ~hist'[s].stopSeen) =>
            UNCHANGED <<pollingIntervalRef, liveTimers, isGenerating>>
     /\ \A s \in SessionIds :
          hist'[s].ticks # hist[s].ticks =>
            hist'[s].issued = hist[s].issued + 1]_vars

C8_Witness ==
  \E s \in SessionIds :
    /\ status = "completed" /\ hist[s].applied >= 1 /\ ~hist[s].stopSeen
    /\ s \in liveTimers /\ pollingIntervalRef = s /\ isGenerating
    /\ hist[s].ticks >= 1

\* C9: the step in which a submission fails starts no polling session,
\* issues no status request, installs no timer, sets the error message and
\* leaves isGenerating and isCompressing false.
C9_FailedSubmissionNeverPolls ==
  [][failedSubmits' # failedSubmits =>
       /\ UNCHANGED <<sessions, inflight, liveTimers, pollingIntervalRef, hist>>
       /\ Truthy(error')
       /\ ~isGenerating' /\ ~isCompressing']_vars

C9_Witness ==
  /\ failedSubmits = 1
  /\ sessions = 0 /\ liveTimers = {} /\ \A s \in SessionIds : inflight[s] = 0
  /\ error = "Failed to start generation"
  /\ ~isGenerating /\ ~isCompressing

\* C10: a session has issued one request when it starts, before any tick,
\* and after that one request per tick of its own live timer.
C10_FirstPollImmediateThenTicks ==
  [][\A s \in SessionIds :
       /\ (s > sessions /\ s <= sessions') =>
            /\ hist'[s].issued = 1 /\ hist'[s].ticks = 0
            /\ s \in liveTimers' /\ pollingIntervalRef' = s
       /\ s <= sessions' => hist'[s].issued = 1 + hist'[s].ticks
       /\ s > sessions' => hist'[s].issued = 0
       /\ hist'[s].ticks # hist[s].ticks =>
            s \in liveTimers /\ pollingIntervalRef = s]_vars

C10_Witness ==
  \E s \in SessionIds :
    /\ Started(s) /\ hist[s].issued = 2 /\ hist[s].ticks = 1
    /\ Outstanding(s) = 1

\* C11: cancelling polling as handleReset does is idempotent and safe
\* without a session.  In every state the page reaches: when no handle is
\* stored the cancellation changes neither the handle nor the timers; after
\* one cancellation the handle is null and no timer is live; a second
\* cancellation right after the first changes nothing more.
C11_CancelIdempotent ==
  LET once == cancelPolling(pollingIntervalRef, liveTimers)
      twice == cancelPolling(once.ref, once.live)
  IN /\ pollingIntervalRef = 0 =>
          once = [ref |-> pollingIntervalRef, live |-> liveTimers]
     /\ once.ref = 0
     /\ once.live = {}
     /\ twice = once

\* handleReset has just cancelled a live session, and a reset of the idle
\* page is possible again: the cancellation ran with a timer and without.
C11_Witness ==
  /\ \E s \in SessionIds : hist[s].cancelled
  /\ pollingIntervalRef = 0
  /\ liveTimers = {}
  /\ sessions > 0
  /\ ResetEnabled
\* ---------------------------------------------------- API client claims
\* The names of the parts of a multipart body, and the value of a part.
FieldNames(fd) == {fd[i][1] : i \in 1..Len(fd)}
FieldValues(fd, name) == {fd[i][2] : i \in {j \in 1..Len(fd) : fd[j][1] = name}}
RequestBuilt ==
  apiArgs.endpoint = "remix-images" /\ urlConfigured
    /\ apiPc # "idle"

\* C12: once generateMatchingSet has built its request, the multipart body
\* holds the part model_image with the model file, and a clothing part
\* top_image / bottom_image / outer_image / dress_image exactly for the
\* slots present in the input, each with that slot's file, once.
C12_BodyHasExactlyPresentSlots ==
  RequestBuilt =>
    /\ FieldValues(formData, "model_image") = {apiArgs.modelImage}
    /\ \A k \in ClothingKeys :
         /\ k \in FieldNames(formData) <=> apiArgs.clothingImages[k] # NULL
         /\ k \in FieldNames(formData) =>
               FieldValues(formData, k) = {apiArgs.clothingImages[k]}
    /\ Cardinality({i \in 1..Len(formData) :
                      formData[i][1] \in ClothingKeys \cup {"model_image"}})
         = 1 + Cardinality({k \in ClothingKeys :
                             apiArgs.clothingImages[k] # NULL})

\* A request with two of the four slots present has been built.
C12_Witness ==
  /\ RequestBuilt
  /\ apiArgs.clothingImages["top_image"] # NULL
  /\ apiArgs.clothingImages["dress_image"] # NULL
  /\ apiArgs.clothingImages["bottom_image"] = NULL
  /\ apiArgs.clothingImages["outer_image"] = NULL
  /\ Len(formData) >= 3
\* The decimal numerals of the values in range, written out.
Numeral(n) ==
  CASE n = 1 -> "1" [] n = 2 -> "2" [] n = 3 -> "3" [] n = 4 -> "4"
    [] OTHER -> "?"

\* C13: when generateMatchingSet builds its request, the part num_outputs
\* is in the body if and only if numOutputs is in 1..4, and then it is the
\* decimal numeral of numOutputs; in either case the request is sent.
C13_NumOutputsOnlyInRange ==
  [][ (generateMatchingSet /\ urlConfigured) =>
        /\ apiPc' = "fetching"
        /\ "num_outputs" \in FieldNames(formData')
             <=> apiArgs.numOutputs \in 1..4
        /\ apiArgs.numOutputs \in 1..4 =>
             FieldValues(formData', "num_outputs")
               = {Numeral(apiArgs.numOutputs)} ]_vars

\* A request with numOutputs = 5 is under way without the part.
C13_Witness ==
  /\ RequestBuilt
  /\ apiArgs.numOutputs = 5
  /\ "num_outputs" \notin FieldNames(formData)
  /\ apiPc = "fetching"

\* A non-2xx answer has been received and turned into a thrown Error.
NonOkThrown == apiPc = "thrown" /\ response # NoResponse /\ ~response.ok
HasReadableMessage(body) ==
  body.kind = "json" /\ body.value.type = "object"
    /\ body.value.message \notin {NULL, EMPTY}
GenericMessage(code) ==
  CASE code = 400 -> "HTTP error! status: 400"
    [] code = 500 -> "HTTP error! status: 500"
    [] OTHER -> "?"

BudgetBytes == maxSizeMB * 1048576
ResolvedOver == settled.state = "resolved" /\ settled.file.size > BudgetBytes
\* The blob the i-th toBlob call produced.
EncodeResult(i) == IF i = 1 THEN blob ELSE smallerBlob
EncodesDone == compressPc = "done" /\ Len(encodeQualities) = 2

\* C15 as stated: a file returned by compressImage exceeds the budget only
\* if an encode at quality 0.3 (or lower) was performed and its result
\* still exceeded the budget.
C15_OverBudgetOnlyAtFloor ==
  ResolvedOver =>
    \E i \in 1..Len(encodeQualities) :
      /\ encodeQualities[i] <= 30
      /\ EncodeResult(i).present
      /\ EncodeResult(i).size > BudgetBytes

\* C15 amended: a file returned by compressImage exceeds the budget only
\* if the first encode exceeded it and either the quality was 0.3 or lower
\* (no second encode) or the second encode was made and gave no blob or a
\* blob that still exceeds the budget, whatever the quality of that second
\* encode; in every other case the returned file is within the budget.
C15_OverBudgetOnlyAfterLastEncode ==
  ResolvedOver =>
    /\ blob.present /\ blob.size > BudgetBytes
    /\ \/ quality <= 30 /\ Len(encodeQualities) = 1
       \/ /\ Len(encodeQualities) = 2
          /\ ~smallerBlob.present \/ smallerBlob.size > BudgetBytes

\* With quality 0.8 both encodes (0.8, then 0.6) came out over the budget
\* and the second result was returned.
C15_Witness ==
  /\ ResolvedOver
  /\ encodeQualities = <<80, 60>>
  /\ smallerBlob.present
  /\ settled.file.size = smallerBlob.size

\* C16: a call with a file whose size is at most the budget (boundary
\* included) resolves at once with the very same file and starts no read,
\* decode, draw or encode.
C16_FastPathReturnsSameFile ==
  (compressPc # "idle" /\ file.size <= BudgetBytes) =>
    /\ compressPc = "done"
    /\ settled = [state |-> "resolved", file |-> file, reason |-> EMPTY]
    /\ trace = <<>>
    /\ encodeQualities = <<>>
    /\ blob = NoBlob /\ smallerBlob = NoBlob

\* A file of exactly the budget was returned untouched.
C16_Witness ==
  /\ file # NoFile
  /\ file.size = BudgetBytes
  /\ settled.state = "resolved"
  /\ settled.file = file
  /\ trace = <<>>

\* C17: one call makes at most two toBlob attempts; the result of the
\* second is returned even when it still exceeds the budget.
C17_AtMostTwoEncodes ==
  /\ Len(encodeQualities) <= 2
  /\ Cardinality({i \in 1..Len(trace) : trace[i] = "toBlob"})
       = Len(encodeQualities)
  /\ (EncodesDone /\ smallerBlob.present) =>
       /\ settled.state = "resolved"
       /\ settled.file.size = smallerBlob.size

\* The second encode was still over the budget and was returned.
C17_Witness ==
  /\ EncodesDone
  /\ smallerBlob.present
  /\ smallerBlob.size > BudgetBytes
  /\ settled.file.size = smallerBlob.size
  /\ settled.state = "resolved"

\* C18: once the first encode has produced a blob, a second encode is made
\* if and only if that blob exceeds the budget and the quality is above
\* 0.3; its quality is max(0.3, quality - 0.2): 0.6 for 0.8, and 0.3 for
\* every quality in (0.3, 0.5].
C18_SecondEncodeQuality ==
  blob.present =>
    /\ Len(encodeQualities) = 2 <=> (blob.size > BudgetBytes /\ quality > 30)
    /\ Len(encodeQualities) = 2 =>
         /\ encodeQualities[1] = quality
         /\ encodeQualities[2]
              = IF quality - 20 >= 30 THEN quality - 20 ELSE 30
         /\ quality = 80 => encodeQualities[2] = 60
         /\ (quality > 30 /\ quality <= 50) => encodeQualities[2] = 30

\* A call with quality 0.31 made its second encode at 0.3.
C18_Witness ==
  /\ blob.present
  /\ quality = 31
  /\ encodeQualities = <<31, 30>>

\* C19: with a quality of 0.3 or lower exactly one encode is made, and its
\* result is returned whatever its size.
C19_FloorQualityEncodesOnce ==
  (quality <= 30 /\ file # NoFile) =>
    /\ Len(encodeQualities) <= 1
    /\ compressPc # "encode2"
    /\ smallerBlob = NoBlob
    /\ compressPc = "encode1" => encodeQualities = <<quality>>
    /\ blob.present =>
         /\ encodeQualities = <<quality>>
         /\ compressPc = "done"
         /\ settled.state = "resolved"
         /\ settled.file.size = blob.size

\* At quality 0.3 the only encode was over the budget and was returned.
C19_Witness ==
  /\ quality = 30
  /\ compressPc = "done"
  /\ blob.present /\ blob.size > BudgetBytes
  /\ Len(encodeQualities) = 1
  /\ settled.state = "resolved"
  /\ settled.file.size = blob.size

\* C20: when the second encode yields no blob the promise resolves with
\* the file built from the first blob; a rejection comes only from the
\* file read, the image load, the canvas context or the first encode.
C20_SecondEncodeFailureFallsBack ==
  /\ (EncodesDone /\ ~smallerBlob.present) =>
       /\ settled.state = "resolved"
       /\ blob.present
       /\ settled.file.size = blob.size
       /\ settled.file.name = file.name
  /\ settled.state = "rejected" =>
       /\ Len(encodeQualities) <= 1
       /\ smallerBlob = NoBlob
       /\ settled.reason \in
            {"Failed to read file", "Failed to load image",
             "Failed to get canvas context", "Failed to compress image"}
       /\ settled.reason = "Failed to compress image" <=>
            Len(encodeQualities) = 1

\* The second encode gave no blob and the first blob was returned.
C20_Witness ==
  /\ EncodesDone
  /\ ~smallerBlob.present
  /\ settled.state = "resolved"
  /\ settled.file.size = blob.size
\* An image was decoded and the target dimensions were computed.
Decoded == img # NoSize
Exceeds == img.width > maxWidth \/ img.height > maxHeight
\* The bound that gives the smaller factor is the width's.
WidthBinds == maxWidth * img.height <= maxHeight * img.width

\* C21: the target dimensions equal the reference.  When the image exceeds
\* a bound, both are the original ones times min(maxWidth/width,
\* maxHeight/height): the binding dimension becomes its bound, the other
\* keeps the aspect ratio, and both are within the bounds; 4000x2000 under
\* 1920x1920 gives 1920x960.  Otherwise they are unchanged.
C21_TargetDimensions ==
  Decoded =>
    /\ Exceeds =>
         /\ width[1] <= maxWidth * width[2]
         /\ height[1] <= maxHeight * height[2]
         /\ width[1] * height[2] * img.height
              = height[1] * width[2] * img.width
         /\ IF WidthBinds
            THEN /\ width = <<maxWidth, 1>>
                 /\ height[1] * img.width = img.height * maxWidth * height[2]
            ELSE /\ height = <<maxHeight, 1>>
                 /\ width[1] * img.height = img.width * maxHeight * width[2]
    /\ ~Exceeds => width = <<img.width, 1>> /\ height = <<img.height, 1>>
    /\ (img = [width |-> 4000, height |-> 2000]
          /\ maxWidth = 1920 /\ maxHeight = 1920) =>
         /\ width = <<1920, 1>> /\ height = <<960, 1>>
         /\ canvas = [width |-> 1920, height |-> 960]
    /\ canvas.width <= maxWidth \/ ~Exceeds
    /\ canvas.height <= maxHeight \/ ~Exceeds

\* A 4000x2000 image was scaled to 1920x960 and the first encode started.
C21_Witness ==
  /\ img = [width |-> 4000, height |-> 2000]
  /\ maxWidth = 1920 /\ maxHeight = 1920
  /\ width = <<1920, 1>> /\ height = <<960, 1>>
  /\ compressPc = "encode1"
\* The failures of the claim: the read fails, the decode fails, no canvas
\* context, no blob from the first encode.
ReadOrDecodeFails == ReaderOnerror \/ ImgOnerror
EarlyFailure ==
  \/ ReadOrDecodeFails
  \/ \E sz \in ImageSizes : ImgOnload(sz[1], sz[2], FALSE)
  \/ FirstBlobCallback(NoBlob)

\* C22: each of these failures rejects the promise with an error and no
\* file; a rejected promise is never resolved afterwards and nothing more
\* is started; after a read or decode failure no encode was attempted.
C22_FailuresReject ==
  [][ /\ EarlyFailure =>
           /\ settled'.state = "rejected"
           /\ settled'.reason # EMPTY
           /\ settled'.file = NoFile
      /\ ReadOrDecodeFails => encodeQualities' = <<>> /\ blob' = NoBlob
      /\ settled.state = "rejected" =>
           /\ settled' = settled
           /\ trace' = trace
           /\ encodeQualities' = encodeQualities ]_vars

\* The decode failed: rejected, and no encode was made.
C22_Witness ==
  /\ settled.state = "rejected"
  /\ settled.reason = "Failed to load image"
  /\ encodeQualities = <<>>
  /\ compressPc = "done"

\* The operations of the slow path in the order of the reference.
StepOrder ==
  << "readAsDataURL", "reader.onload", "img.src", "img.onload", "resize",
     "getContext", "drawImage", "toBlob", "callback", "toBlob", "callback" >>

\* C24: on the slow path the steps occur in a fixed order: the read
\* completes before the decode starts, the decode completes before the
\* resize and the draw, the draw precedes the first encode, and the first
\* encode completes before the second starts.  What has happened so far is
\* always an initial part of that order.
C24_StepsInOrder ==
  /\ Len(trace) <= Len(StepOrder)
  /\ \A i \in 1..Len(trace) : trace[i] = StepOrder[i]

\* A call that went through both encodes.
C24_Witness == trace = StepOrder /\ settled.state = "resolved"
\* ------------------------------------------------- compressImages claims
Called == compressedFiles.state # "idle"
AllResolved == \A i \in 1..Len(promises) : promises[i].state = "resolved"
RejectedIndices ==
  {k \in 1..Len(finished) : promises[finished[k]].state = "rejected"}
\* The promise that was the first to reject.
FirstRejected ==
  finished[CHOOSE k \in RejectedIndices : \A j \in RejectedIndices : k <= j]

\* C23: compressImages is all-or-nothing and order-preserving.  As soon as
\* one compressImage call has rejected, the batch is rejected with the
\* error of the first call that rejected and carries no list; once all
\* have resolved, the batch is resolved with a list as long as the input
\* whose i-th element is what the i-th call resolved with (a file of the
\* i-th input's name), whatever the order of finishing; otherwise it is
\* pending.
C23_BatchAllOrNothingInOrder ==
  Called =>
    /\ Len(promises) = Len(files)
    /\ IF RejectedIndices # {}
       THEN /\ compressedFiles.state = "rejected"
            /\ compressedFiles.reason = promises[FirstRejected].reason
            /\ compressedFiles.list = <<>>
       ELSE IF AllResolved
       THEN /\ compressedFiles.state = "resolved"
            /\ Len(compressedFiles.list) = Len(files)
            /\ \A i \in 1..Len(files) :
                 /\ compressedFiles.list[i] = promises[i].file
                 /\ compressedFiles.list[i].name = files[i].name
       ELSE compressedFiles.state = "pending"

\* Three files whose compressions finished last-first, all resolved.
C23_Witness ==
  /\ compressedFiles.state = "resolved"
  /\ finished = <<3, 2, 1>>
  /\ Len(compressedFiles.list) = 3
\* ----------------------------------------------- polling session claims
\* C25: an answer to a request of an earlier session never stops a later
\* session: when it is handled while the latest session's timer is live,
\* that timer stays live and the handle keeps pointing at it.
C25_LateAnswerNeverStopsLaterSession ==
  [][ \A s \in SessionIds :
        (s < sessions /\ Completes(s) /\ sessions \in liveTimers) =>
          /\ sessions \in liveTimers'
          /\ pollingIntervalRef' = pollingIntervalRef ]_vars

\* C26: at most one interval timer is live, and the handle is non-null
\* exactly when that timer is live, and then it is that timer.
C26_OneTimerOwnedByHandle ==
  /\ Cardinality(liveTimers) <= 1
  /\ pollingIntervalRef # 0 <=> liveTimers # {}
  /\ pollingIntervalRef # 0 => liveTimers = {pollingIntervalRef}

\* A second session replaced the first: its timer is the only one live,
\* while a request of the first session is still outstanding.
C26_Witness ==
  /\ sessions = 2
  /\ liveTimers = {2}
  /\ pollingIntervalRef = 2
  /\ inflight[1] > 0

\* C27: whenever the interval timer is live, isGenerating is true.
C27_LiveTimerImpliesGenerating ==
  liveTimers # {} => isGenerating

\* C28: with a responsive service every polling session ends: a live timer
\* is eventually cleared, isGenerating is eventually false, and once the
\* timer of a session is cleared that session issues no status request.
C28_SessionEventuallyEnds ==
  /\ (liveTimers # {}) ~> (liveTimers = {} /\ ~isGenerating)
  /\ [][ \A s \in SessionIds :
           (Started(s) /\ s \notin liveTimers) =>
             hist'[s].issued = hist[s].issued ]_hist

\* A session ended by a terminal answer after a non-terminal one.
C28_Witness ==
  \E s \in SessionIds :
    /\ Started(s)
    /\ s \notin liveTimers
    /\ hist[s].stopSeen
    /\ hist[s].applied >= 2
    /\ ~isGenerating

\* C29: in the 'adding' step handleSubmit fetches the model image from the
\* image the user clicked last in the gallery, which selectedGeneratedImage
\* still holds; the first generated image is used only when the user never
\* clicked one.
C29_SelectedImageIsModel ==
  [][ (handleSubmitAdding /\ Len(imageArray) > 0) =>
        IF picked # NULL
        THEN selectedGeneratedImage = picked /\ modelUrl' = picked
        ELSE modelUrl' = imageArray[1] ]_vars

\* The files of a multipart body under one field name.
Field(fd, name) == { fd[i][2] : i \in { j \in DOMAIN fd : fd[j][1] = name } }

\* C30: in the multi-slot handler every populated slot's field of the
\* request carries the compressed version of that slot's own file, the
\* model field the compressed model image, and an empty slot has no field.
C30_SlotsKeepTheirFiles ==
  multiPc = "fetching" =>
    /\ \A k \in ClothingKeys :
         IF slotFiles[k] # NULL
         THEN /\ Field(request, k) = {clothingImagesArg[k]}
              /\ clothingImagesArg[k] \in CompressedOf(slotFiles[k])
              /\ \E i \in DOMAIN compressionPromises :
                   /\ compressionPromises[i] = slotFiles[k]
                   /\ compressedImages[i] = clothingImagesArg[k]
         ELSE Field(request, k) = {}
    /\ Field(request, "model_image") = {compressedImages[1]}
    /\ compressedImages[1] \in CompressedOf(ModelFile)
    /\ compressedIndex = Len(compressedImages)

\* Top and outer are empty, bottom and dress are populated and recompressed.
C30_Witness ==
  /\ multiPc = "fetching"
  /\ slotFiles["top_image"] = NULL
  /\ slotFiles["outer_image"] = NULL
  /\ Field(request, "bottom_image") = {Recompressed(ClothingFile("bottom_image"))}
  /\ Field(request, "dress_image") = {Recompressed(ClothingFile("dress_image"))}
  /\ Field(request, "model_image") = {ModelFile}
====
